---------------------------- MODULE Spec2Model ----------------------------
(***************************************************************************)
(* Model of the resilient API client infrastructure of the parks MCP       *)
(* server: the token-bucket RateLimiter (src/src/api/rate_limit.py), the   *)
(* retry wrapper (src/src/api/retry.py) and the verb methods of the API    *)
(* clients (src/src/api/client.py, weather.py, air_quality.py), with the   *)
(* module-level client instance and the two conversions of an API error.   *)
(*                                                                         *)
(* Numbers.  The limiter's floats are modelled as exact rationals: tokens  *)
(* are counted in units of 1/3600 token and time in whole seconds, so that *)
(* tokens_per_second = requests_per_hour / 3600.0 refills exactly          *)
(* requests_per_hour units per second.  Float rounding is not modelled.    *)
(***************************************************************************)
EXTENDS Integers, Sequences, FiniteSets

\* ------------------------------------------------------------- bounds
NumThreads == 2
MaxRph == 2
MaxRequest == 2
MaxTicks == 4
TickSeconds == 900
MaxRetriesBound == 2
MaxCalls == 3
MaxBurstCapacity == 5
MaxBurst == 8
MaxBackoffAttempt == 10
MaxGlobalCalls == 6

\* --------------------------------------------------- program constants
SecondsPerHour == 3600
InitialDelay == 1
MaxDelay == 60
ExponentialBase == 2
StatusOK == 200
StatusUnauthorized == 401
StatusNotFound == 404
StatusUnavailable == 503
FloatMaxExponent == 1024

Threads == 1..NumThreads
NoThread == 0
RphChoices == 0..MaxRph
ClockSteps == {TickSeconds, 2 * TickSeconds}
MaxNow == MaxTicks * TickSeconds

VARIABLES
    now,                  \* the clock read by time.time(), in seconds
    requests_per_hour,    \* RateLimiter.requests_per_hour (= max_tokens)
    tokens,               \* RateLimiter.tokens, in 1/3600 token
    last_update,          \* RateLimiter.last_update
    lock,                 \* RateLimiter.lock: the thread holding it, or NoThread
    kind,                 \* which client: "nps", "openweather", "openmeteo", "airvisual"
    api_key,              \* whether the client has an API key
    enable_retry,         \* whether self.client is a RetryableHTTPClient
    max_retries,          \* RetryConfig.max_retries
    enable_rate_limiting, \* whether self.rate_limiter is a RateLimiter
    pc,                   \* each thread's position
    want,                 \* acquire's argument tokens
    blk,                  \* acquire's argument block
    phase,                \* 1: first critical section of acquire, 2: the one after the sleep
    need,                 \* tokens_needed computed before the sleep, in 1/3600 token
    sleepStart,           \* clock reading when the thread left the first critical section
    ret,                  \* the thread's last acquire: "none", "true", "false", "ZeroDivisionError"
    inCall,               \* the thread is inside a verb call of the client
    attempt,              \* the retry wrapper's loop variable
    last_exception,       \* the retry wrapper's last_exception
    sleeps,               \* the delays passed to time.sleep by the retry wrapper, this call
    result,               \* what the thread's last verb call returned or raised
    hist,                 \* ghost: the transport's outcomes during this call, in order
    limiterCalls,         \* ghost: acquire calls made by this verb call
    granted,              \* ghost: tokens handed out by acquire since construction or reset
    epochStart,           \* ghost: clock at construction or at the last reset
    lastRead,             \* ghost: the last two values get_available_tokens returned
    calls,                \* ghost: calls started by the callers with a budget of calls
    acquireReturns,       \* ghost: acquire calls that returned to a verb call
    requestsIssued,       \* ghost: transport requests issued by all verb calls
    acquireLog,           \* ghost: what the acquire calls of a burst returned, in order
    ticket,               \* ghost: each thread's latest numbered call, and the calls asleep when it began
    args,                 \* a call of one of the pure functions: its name and arguments
    value,                \* what that call returned or raised, once it has been made
    _client,              \* client.py's global _client: an instance's number, or NoInstance
    instances,            \* the number of NPSAPIClient instances constructed so far
    closes,               \* for each instance, how often its transport has been closed
    gpc,                  \* each thread's position in get_client or close_client
    glog                  \* ghost: the get_client and close_client calls completed, in order

limiterVars == <<requests_per_hour, tokens, last_update, lock>>
configVars == <<kind, api_key, enable_retry, max_retries, enable_rate_limiting>>
pureVars == <<args, value>>
acquireVars == <<pc, want, blk, phase, need, sleepStart, ret>>
callVars == <<inCall, attempt, last_exception, sleeps, result, hist, limiterCalls>>
ghostVars == <<granted, epochStart, lastRead>>
countVars == <<calls, acquireReturns, requestsIssued, acquireLog, ticket>>
globalVars == <<_client, instances, closes, gpc, glog>>
vars == <<now, limiterVars, configVars, globalVars, pureVars, acquireVars, callVars, ghostVars, countVars>>

Min(a, b) == IF a <= b THEN a ELSE b

\* n tokens in the model's unit of 1/3600 token.
Units(n) == n * SecondsPerHour

\* RateLimiter.max_tokens, in units.
max_tokens == Units(requests_per_hour)

\* _refill_tokens: min(max_tokens, tokens + elapsed * tokens_per_second), where
\* tokens_per_second is requests_per_hour units of 1/3600 token per second.
RefilledUnclamped(tk, last, clock) == tk + (clock - last) * requests_per_hour

Refilled(tk, last, clock) == Min(max_tokens, tk + (clock - last) * requests_per_hour)

\* "with self.lock:" can be entered only while nobody holds the lock.
LockIgnored == TRUE

LockFree == lock = NoThread


\* --------------------------------------------------------------- values
NoExc == [type |-> "none", cls |-> "none", status |-> 0, body |-> "none"]
NoResult ==
    [kind |-> "none", status_code |-> 0, error |-> "none", url |-> "absent", body |-> "none"]

ClientKinds == {"nps", "openweather", "openmeteo", "airvisual"}

\* No call of a pure function is under way, and none has been made.
NoArgs == [op |-> "none"]
NoValue == [done |-> FALSE]

\* The thread has made no numbered call.
NoTicket == [no |-> 0, asleep |-> {}]

\* "_client: Optional[NPSAPIClient] = None": no global instance.
NoInstance == 0

\* No value has been read from get_available_tokens yet.
NoRead ==
    [value |-> -1, at |-> 0, clean |-> FALSE, prev |-> -1, prevAt |-> 0,
     undisturbed |-> FALSE]

\* Ghost: tokens were acquired, or the limiter was reset, after the last read.
ReadDisturbed == [lastRead EXCEPT !.clean = FALSE]

\* The initial state: a client just constructed (its limiter full, its lock free),
\* and no thread in any call.  max_retries matters only to a retrying client.
InitState(capacities) ==
    /\ now = 0
    /\ requests_per_hour \in capacities
    /\ tokens = Units(requests_per_hour)
    /\ last_update = 0
    /\ lock = NoThread
    /\ kind \in ClientKinds
    /\ api_key \in BOOLEAN
    /\ enable_retry \in BOOLEAN
    /\ max_retries \in 0..MaxRetriesBound
    /\ enable_rate_limiting \in BOOLEAN
    /\ pc = [t \in Threads |-> "idle"]
    /\ want = [t \in Threads |-> 1]
    /\ blk = [t \in Threads |-> TRUE]
    /\ phase = [t \in Threads |-> 1]
    /\ need = [t \in Threads |-> 0]
    /\ sleepStart = [t \in Threads |-> 0]
    /\ ret = [t \in Threads |-> "none"]
    /\ inCall = [t \in Threads |-> FALSE]
    /\ attempt = [t \in Threads |-> 0]
    /\ last_exception = [t \in Threads |-> NoExc]
    /\ sleeps = [t \in Threads |-> <<>>]
    /\ result = [t \in Threads |-> NoResult]
    /\ hist = [t \in Threads |-> <<>>]
    /\ limiterCalls = [t \in Threads |-> 0]
    /\ granted = 0
    /\ epochStart = 0
    /\ lastRead = NoRead
    /\ calls = 0
    /\ acquireReturns = 0
    /\ requestsIssued = 0
    /\ acquireLog = <<>>
    /\ ticket = [t \in Threads |-> NoTicket]
    /\ value = NoValue
    /\ _client = NoInstance
    /\ instances = 0
    /\ closes = <<>>
    /\ gpc = [t \in Threads |-> "idle"]
    /\ glog = <<>>

Init == InitState(RphChoices) /\ args = NoArgs

\* ------------------------------------------------------------ the clock
\* Time passes.  The clock never goes back here.
Tick ==
    /\ \E d \in ClockSteps :
          /\ now + d <= MaxNow
          /\ now' = now + d
    /\ UNCHANGED <<limiterVars, configVars, globalVars, pureVars, acquireVars, callVars, ghostVars, countVars>>

\* ---------------------------------------------------------- RateLimiter
\* A thread calls acquire(n, b) on the limiter directly.
AcquireCall(t) ==
    /\ pc[t] = "idle"
    /\ ~inCall[t]
    /\ \E n \in 1..MaxRequest, b \in BOOLEAN :
          /\ want' = [want EXCEPT ![t] = n]
          /\ blk' = [blk EXCEPT ![t] = b]
    /\ phase' = [phase EXCEPT ![t] = 1]
    /\ pc' = [pc EXCEPT ![t] = "acq_lock"]
    /\ ret' = [ret EXCEPT ![t] = "none"]
    /\ UNCHANGED <<now, limiterVars, configVars, globalVars, pureVars, need, sleepStart, callVars, ghostVars, countVars>>

\* "with self.lock: self._refill_tokens()": take the lock, read the clock, refill.
AcquireEnter(t) ==
    /\ pc[t] = "acq_lock"
    /\ LockFree
    /\ lock' = t
    /\ tokens' = Refilled(tokens, last_update, now)
    /\ last_update' = now
    /\ pc' = [pc EXCEPT ![t] = "acq_check"]
    /\ UNCHANGED <<now, requests_per_hour, configVars, globalVars, pureVars, want, blk, phase, need, sleepStart,
                   ret, callVars, ghostVars, countVars>>

\* acquire returns: its arguments and locals are gone.
AcquireLocalsDie(t) ==
    /\ want' = [want EXCEPT ![t] = 1]
    /\ blk' = [blk EXCEPT ![t] = TRUE]
    /\ phase' = [phase EXCEPT ![t] = 1]
    /\ need' = [need EXCEPT ![t] = 0]
    /\ sleepStart' = [sleepStart EXCEPT ![t] = 0]

\* Ghost: one more acquire has returned to a verb call.
ReturnsCounted(t) == IF inCall[t] THEN acquireReturns + 1 ELSE acquireReturns

\* Where acquire's caller goes on when acquire returns.
AfterAcquire(t) == IF inCall[t] THEN "send" ELSE "idle"

\* Where it goes on when acquire returns False: the verb method does not look at
\* the value ("self.rate_limiter.acquire()" is a statement of its own).
AfterRefusalGivesUp(t) == "idle"

AfterRefusal(t) == AfterAcquire(t)

\* When the tokens do not suffice, acquire returns False at once: "if not block" in
\* the first critical section, unconditionally in the one after the sleep.
ReturnsFalseWhenWoken(t) == phase[t] = 2

ReturnsFalseWhenNotBlocking(t) == ~blk[t]

ReturnsFalseOnShortage(t) == phase[t] = 2 \/ ~blk[t]

\* The holder of the lock while thread t is in time.sleep: the first "with
\* self.lock" block ends before the sleep.
LockKeptWhileAsleep(t) == t

LockWhileAsleep(t) == NoThread

\* "if self.tokens >= tokens", and, when the tokens do not suffice, the rest of the
\* critical section: return False (not block, or second try), or compute wait_time
\* (a division by tokens_per_second) and leave the lock to sleep.
AcquireCheck(t) ==
    /\ pc[t] = "acq_check"
    /\ \/ /\ tokens >= Units(want[t])
          /\ pc' = [pc EXCEPT ![t] = "acq_deduct"]
          /\ UNCHANGED <<lock, want, blk, phase, need, sleepStart, ret, inCall, result,
                         acquireReturns>>
       \/ /\ tokens < Units(want[t])
          /\ ReturnsFalseOnShortage(t)
          /\ lock' = NoThread
          /\ ret' = [ret EXCEPT ![t] = "false"]
          /\ pc' = [pc EXCEPT ![t] = AfterRefusal(t)]
          /\ acquireReturns' = ReturnsCounted(t)
          /\ AcquireLocalsDie(t)
          /\ UNCHANGED <<inCall, result>>
       \/ /\ tokens < Units(want[t])
          /\ ~ReturnsFalseOnShortage(t)
          /\ requests_per_hour # 0
          /\ need' = [need EXCEPT ![t] = Units(want[t]) - tokens]
          /\ sleepStart' = [sleepStart EXCEPT ![t] = now]
          /\ lock' = LockWhileAsleep(t)
          /\ pc' = [pc EXCEPT ![t] = "acq_sleep"]
          /\ UNCHANGED <<want, blk, phase, ret, inCall, result, acquireReturns>>
       \/ /\ tokens < Units(want[t])
          /\ ~ReturnsFalseOnShortage(t)
          /\ requests_per_hour = 0
          \* tokens_needed / 0.0 raises ZeroDivisionError out of acquire; inside a verb
          \* call nothing catches it (acquire is called before the try block)
          /\ lock' = NoThread
          /\ ret' = [ret EXCEPT ![t] = "ZeroDivisionError"]
          /\ pc' = [pc EXCEPT ![t] = "idle"]
          /\ inCall' = [inCall EXCEPT ![t] = FALSE]
          /\ result' = [result EXCEPT ![t] =
                          IF inCall[t] THEN [NoResult EXCEPT !.kind = "ZeroDivisionError"]
                          ELSE @]
          /\ AcquireLocalsDie(t)
          /\ UNCHANGED acquireReturns
    /\ UNCHANGED <<now, requests_per_hour, tokens, last_update, configVars, globalVars, pureVars,
                   attempt, last_exception, sleeps, hist, limiterCalls, ghostVars, calls,
                   requestsIssued, ticket>>

\* "self.tokens -= tokens"
DeductedNothing(tk, n) == tk

Deducted(tk, n) == tk - Units(n)

\* "self.tokens -= tokens; return True", leaving the lock.
AcquireDeduct(t) ==
    /\ pc[t] = "acq_deduct"
    /\ tokens' = Deducted(tokens, want[t])
    /\ lock' = NoThread
    /\ ret' = [ret EXCEPT ![t] = "true"]
    /\ granted' = granted + want[t]
    /\ pc' = [pc EXCEPT ![t] = AfterAcquire(t)]
    /\ acquireReturns' = ReturnsCounted(t)
    /\ AcquireLocalsDie(t)
    /\ lastRead' = ReadDisturbed
    /\ UNCHANGED <<now, requests_per_hour, last_update, configVars, globalVars, pureVars, callVars, epochStart,
                   calls, requestsIssued, ticket>>

\* time.sleep(wait_time) is over: at least wait_time = tokens_needed / tokens_per_second
\* seconds have passed since the thread left the lock.
SleepIsOver(t) == (now - sleepStart[t]) * requests_per_hour >= need[t]

AcquireWake(t) ==
    /\ pc[t] = "acq_sleep"
    /\ SleepIsOver(t)
    /\ phase' = [phase EXCEPT ![t] = 2]
    /\ pc' = [pc EXCEPT ![t] = "acq_lock"]
    /\ UNCHANGED <<now, limiterVars, configVars, globalVars, pureVars, want, blk, need, sleepStart, ret, callVars,
                   ghostVars, countVars>>

\* get_available_tokens: lock, refill, return self.tokens.
GetAvailableTokens(t) ==
    /\ pc[t] = "idle"
    /\ ~inCall[t]
    /\ LockFree
    /\ tokens' = Refilled(tokens, last_update, now)
    /\ last_update' = now
    /\ UNCHANGED <<now, requests_per_hour, lock, configVars, globalVars, pureVars, acquireVars, callVars, granted,
                   epochStart, countVars>>

\* Ghost: the caller keeps the value get_available_tokens returned (self.tokens after
\* the refill) with the clock reading, next to the value of its previous read, and
\* notes whether no tokens were acquired and no reset happened between the two.
ReadRecorded ==
    lastRead' = [value |-> tokens', at |-> now, clean |-> TRUE,
                 prev |-> lastRead.value, prevAt |-> lastRead.at,
                 undisturbed |-> lastRead.clean]

\* reset: lock, tokens = max_tokens, last_update = time.time().
Reset(t) ==
    /\ pc[t] = "idle"
    /\ ~inCall[t]
    /\ LockFree
    /\ tokens' = max_tokens
    /\ last_update' = now
    /\ granted' = 0
    /\ epochStart' = now
    /\ lastRead' = ReadDisturbed
    /\ UNCHANGED <<now, requests_per_hour, lock, configVars, globalVars, pureVars, acquireVars, callVars, countVars>>

\* The steps of an acquire call whose caller keeps no log of what it returns.
AcquireSteps(t) ==
    \/ AcquireEnter(t)
    \/ AcquireCheck(t) /\ UNCHANGED acquireLog
    \/ AcquireDeduct(t) /\ UNCHANGED acquireLog
    \/ AcquireWake(t)

\* Threads using one RateLimiter directly.
NextLimiter ==
    \/ Tick
    \/ \E t \in Threads :
          \/ AcquireCall(t)
          \/ AcquireSteps(t)
          \/ GetAvailableTokens(t) /\ UNCHANGED lastRead
          \/ Reset(t)

\* A limiter used on its own: the client around it plays no part.
InitLimiter ==
    /\ Init
    /\ kind = "nps" /\ api_key /\ ~enable_retry /\ max_retries = 0 /\ enable_rate_limiting

SpecLimiter == InitLimiter /\ [][NextLimiter]_vars

\* One thread alone calling acquire, blocking or not.
NextSolo ==
    \/ Tick
    \/ AcquireCall(1)
    \/ AcquireSteps(1)

SpecSolo == InitLimiter /\ [][NextSolo]_vars

\* time.time() is the wall clock: it can be set back between two readings.
ClockSetBack ==
    /\ \E d \in ClockSteps :
          /\ now - d >= 0
          /\ now' = now - d
    /\ UNCHANGED <<limiterVars, configVars, globalVars, pureVars, acquireVars, callVars, ghostVars, countVars>>

\* One thread using a limiter whose clock goes forward and back.
NextWallClock ==
    \/ Tick
    \/ ClockSetBack
    \/ AcquireCall(1)
    \/ AcquireSteps(1)
    \/ GetAvailableTokens(1) /\ UNCHANGED lastRead

SpecWallClock == InitLimiter /\ [][NextWallClock]_vars

\* One thread reads get_available_tokens and keeps what it read, while the other
\* calls acquire and reset.
NextReads ==
    \/ Tick
    \/ GetAvailableTokens(1) /\ ReadRecorded
    \/ AcquireCall(2)
    \/ AcquireSteps(2)
    \/ Reset(2)

SpecReads == InitLimiter /\ [][NextReads]_vars

\* A thread with a budget of calls calls acquire(n, b) on the limiter directly.
AcquireCallCounted(t) ==
    /\ pc[t] = "idle"
    /\ ~inCall[t]
    /\ calls < MaxCalls
    /\ calls' = calls + 1
    /\ \E n \in 1..MaxRequest, b \in BOOLEAN :
          /\ want' = [want EXCEPT ![t] = n]
          /\ blk' = [blk EXCEPT ![t] = b]
    /\ phase' = [phase EXCEPT ![t] = 1]
    /\ pc' = [pc EXCEPT ![t] = "acq_lock"]
    /\ ret' = [ret EXCEPT ![t] = "none"]
    /\ UNCHANGED <<now, limiterVars, configVars, globalVars, pureVars, need, sleepStart, callVars, ghostVars,
                   acquireReturns, requestsIssued, acquireLog>>

\* Some thread is in time.sleep(wait_time) and its time is not up.
SomeoneSleeps == \E t \in Threads : pc[t] = "acq_sleep" /\ ~SleepIsOver(t)

\* Time passes; it does not stop while a thread is asleep.
TickOn ==
    /\ \E d \in ClockSteps :
          /\ now + d <= MaxNow \/ SomeoneSleeps
          /\ now' = now + d
    /\ UNCHANGED <<limiterVars, configVars, globalVars, pureVars, acquireVars, callVars, ghostVars, countVars>>

NextFair ==
    \/ TickOn
    \/ \E t \in Threads :
          \/ AcquireCallCounted(t) /\ UNCHANGED ticket
          \/ AcquireSteps(t)

\* Every thread inside acquire is scheduled again and again, and the clock goes on.
Fairness ==
    /\ WF_vars(TickOn)
    /\ \A t \in Threads : WF_vars(AcquireSteps(t))

SpecFair == InitLimiter /\ [][NextFair]_vars /\ Fairness

\* Ghost: the call thread t begins gets the next number, and the numbers of the
\* calls that are asleep at this moment are noted with it.
Ticketed(t) ==
    ticket' = [ticket EXCEPT ![t] =
                 [no |-> calls + 1,
                  asleep |-> {ticket[u].no : u \in {v \in Threads : pc[v] = "acq_sleep"}}]]

\* Threads calling acquire, with the order of their calls noted.
NextOrdered ==
    \/ Tick
    \/ \E t \in Threads :
          \/ AcquireCallCounted(t) /\ Ticketed(t)
          \/ AcquireSteps(t)

SpecOrdered == InitLimiter /\ [][NextOrdered]_vars

\* A burst: one caller makes up to MaxBurst non-blocking acquire(1) calls in a row on
\* a fresh limiter while the clock stands still, and collects what they return.
BurstCall(t) ==
    /\ pc[t] = "idle"
    /\ ~inCall[t]
    /\ Len(acquireLog) < MaxBurst
    /\ want' = [want EXCEPT ![t] = 1]
    /\ blk' = [blk EXCEPT ![t] = FALSE]
    /\ phase' = [phase EXCEPT ![t] = 1]
    /\ pc' = [pc EXCEPT ![t] = "acq_lock"]
    /\ ret' = [ret EXCEPT ![t] = "none"]
    /\ UNCHANGED <<now, limiterVars, configVars, globalVars, pureVars, need, sleepStart, callVars, ghostVars, countVars>>

\* The caller appends the value acquire returned, when the step is a return.
Logged(t) ==
    acquireLog' = IF pc'[t] = "idle" THEN Append(acquireLog, ret'[t]) ELSE acquireLog

NextBurst ==
    \/ BurstCall(1)
    \/ AcquireEnter(1)
    \/ AcquireCheck(1) /\ Logged(1)
    \/ AcquireDeduct(1) /\ Logged(1)

InitBurst ==
    /\ InitState(0..MaxBurstCapacity)
    /\ args = NoArgs
    /\ kind = "nps" /\ api_key /\ ~enable_retry /\ max_retries = 0 /\ enable_rate_limiting

SpecBurst == InitBurst /\ [][NextBurst]_vars


\* ------------------------------------------------------- the transport
\* What one call of the transport (httpx.Client.get) can do: raise an exception of
\* some class, or return a response with a status and a body.  httpx itself returns
\* a response for every status; a transport that raises HTTPStatusError is what the
\* repository's tests mock.  str(e) of an exception is modelled by its class name.
Raise(c, s) == [type |-> "raise", cls |-> c, status |-> s, body |-> "none"]
Response(s, b) == [type |-> "response", cls |-> "none", status |-> s, body |-> b]

Bodies == {"json_success", "json_dict", "json_list", "not_json"}

Outcomes ==
    {Raise("TimeoutException", 0), Raise("NetworkError", 0), Raise("RuntimeError", 0)}
    \cup {Raise("HTTPStatusError", s) : s \in {StatusNotFound, StatusUnavailable}}
    \cup {Response(StatusOK, b) : b \in Bodies}
    \cup {Response(s, b) : s \in {StatusNotFound, StatusUnavailable},
                           b \in {"json_dict", "not_json"}}

\* ------------------------------------------------------------ retry.py
\* RetryConfig.retry_on_status_codes when the argument is omitted, as the clients do.
DefaultRetryStatusCodes == {429, 500, 502, 503, 504}

\* base ** attempt as far as the min with max_delay can tell: the exact power while
\* it is at most cap, and otherwise some power above cap.
RECURSIVE PowerFrom(_, _, _, _)
PowerFrom(acc, b, n, cap) ==
    IF n = 0 \/ acc > cap THEN acc ELSE PowerFrom(acc * b, b, n - 1, cap)

PowerCapped(b, n, cap) == PowerFrom(1, b, n, cap)

\* log2 of a power of two.
RECURSIVE Log2(_)
Log2(b) == IF b <= 1 THEN 0 ELSE 1 + Log2(b \div 2)

\* "exponential_base**attempt" on floats raises OverflowError when the power does
\* not fit a float, that is from 2.0 ** 1024 on (bases that are powers of two).
PowerRaises(b, n) == n * Log2(b) >= FloatMaxExponent

calculate_backoff_delay_const(a, initial_delay, max_delay, exponential_base) ==
    initial_delay

\* The value calculate_backoff_delay returns when the power can be computed (the
\* initial delays modelled are whole seconds >= 1).
calculate_backoff_delay(a, initial_delay, max_delay, exponential_base) ==
    Min(initial_delay * PowerCapped(exponential_base, a, max_delay), max_delay)

\* isinstance(error, base): the class of the exception and the classes it derives
\* from, for the httpx exceptions and two exceptions that are not httpx's.
Bases(c) ==
    CASE c \in {"ConnectTimeout", "ReadTimeout"} -> {c, "TimeoutException", "TransportError"}
      [] c \in {"ConnectError", "ReadError"} -> {c, "NetworkError", "TransportError"}
      [] c \in {"TimeoutException", "NetworkError", "ProtocolError"} -> {c, "TransportError"}
      [] OTHER -> {c}

IsInstance(error, base) == base \in Bases(error.cls)

should_retry_everything(error, retry_on_status_codes) == TRUE

should_retry_error(error, retry_on_status_codes) ==
    IF IsInstance(error, "NetworkError") \/ IsInstance(error, "TimeoutException") THEN TRUE
    ELSE IF IsInstance(error, "HTTPStatusError") THEN error.status \in retry_on_status_codes
    ELSE FALSE

\* The wrapper's decision after attempt number a raised e: go on to another attempt.
RetriesWithoutBound(a, e) == should_retry_error(e, DefaultRetryStatusCodes)

Retries(a, e) ==
    /\ enable_retry
    /\ ~(a >= max_retries)
    /\ should_retry_error(e, DefaultRetryStatusCodes)

\* ------------------------------------------- client.py, weather.py, air_quality.py
\* An API error with its kind, its status_code, details["error"] and details["url"]:
\* "requested" for the URL of the request, "from_body" for an entry taken from the
\* response body, "absent" when details has no such key.
Err(k, sc, msg, u) == [kind |-> k, status_code |-> sc, error |-> msg, url |-> u, body |-> "none"]
Ok(b) == [kind |-> "ok", status_code |-> 0, error |-> "none", url |-> "absent", body |-> b]

\* response.json(): the parsed value, or "JSONDecodeError" when the body is no JSON.
ParseJson(b) ==
    CASE b = "json_success" -> "dict_success"
      [] b = "json_dict" -> "dict"
      [] b = "json_list" -> "list"
      [] b = "json_dict_url" -> "dict_url"
      [] OTHER -> "JSONDecodeError"

\* error_details = {"url": str(e.request.url)} followed, when the body of the error
\* response is a JSON object, by error_details.update(error_data).
ErrorDetailsUrl(r) == IF ParseJson(r.body) = "dict_url" THEN "from_body" ELSE "requested"

\* response.raise_for_status() passes.
IsSuccessStatus(s) == s >= 200 /\ s < 300

\* _handle_response, and for AirVisual the check of data["status"] that follows it
\* in get_nearest_city (data.get on a JSON value that is no dict raises
\* AttributeError, which the method's last handler turns into unknown_error).
HandleResponseStatusDropped(k, r) ==
    IF ~IsSuccessStatus(r.status) THEN Err("http_error", 0, "none", ErrorDetailsUrl(r))
    ELSE IF ParseJson(r.body) = "JSONDecodeError"
         THEN Err("parse_error", r.status, "JSONDecodeError", "absent")
    ELSE IF k # "airvisual" THEN Ok(ParseJson(r.body))
    ELSE IF ParseJson(r.body) = "list" THEN Err("unknown_error", 0, "AttributeError", "requested")
    ELSE IF ParseJson(r.body) # "dict_success" THEN Err("api_error", r.status, "none", "absent")
    ELSE Ok(ParseJson(r.body))

HandleResponse(k, r) ==
    IF ~IsSuccessStatus(r.status) THEN Err("http_error", r.status, "none", ErrorDetailsUrl(r))
    ELSE IF ParseJson(r.body) = "JSONDecodeError"
         THEN Err("parse_error", r.status, "JSONDecodeError", "absent")
    ELSE IF k # "airvisual" THEN Ok(ParseJson(r.body))
    ELSE IF ParseJson(r.body) = "list" THEN Err("unknown_error", 0, "AttributeError", "requested")
    ELSE IF ParseJson(r.body) # "dict_success" THEN Err("api_error", r.status, "none", "absent")
    ELSE Ok(ParseJson(r.body))

\* The except clauses of the verb method, in order, for an exception e that came
\* out of self.client.get.
ExceptChain(e) ==
    IF IsInstance(e, "TimeoutException") THEN Err("timeout_error", 0, "none", "requested")
    ELSE IF IsInstance(e, "NetworkError") THEN Err("network_error", 0, e.cls, "requested")
    ELSE Err("unknown_error", 0, e.cls, "requested")

\* The convenience methods that check self.api_key before anything else:
\* OpenWeatherClient.get_current_weather and AirQualityClient.get_nearest_city.
\* NPSAPIClient.get and its convenience methods have no such check, and
\* OpenMeteoClient has no key.
ChecksKey(k) == k \in {"openweather", "airvisual"}

\* "if self.rate_limiter:" in the verb method.
UsesLimiterNever == FALSE

UsesLimiter == enable_rate_limiting

\* "last_exception = e" in the wrapper's except clause: the exception that
\* "raise last_exception" raises after the loop, when attempt t's call raised e.
LastExceptionKeepsFirst(t, e) == IF last_exception[t] = NoExc THEN e ELSE last_exception[t]

LastException(t, e) == e

\* A thread enters a verb method of the client.
CallStart(t) ==
    /\ pc[t] = "idle"
    /\ ~inCall[t]
    /\ calls < MaxCalls
    /\ calls' = calls + 1
    /\ hist' = [hist EXCEPT ![t] = <<>>]
    /\ sleeps' = [sleeps EXCEPT ![t] = <<>>]
    /\ ret' = [ret EXCEPT ![t] = "none"]
    /\ attempt' = [attempt EXCEPT ![t] = 0]
    /\ \/ /\ ChecksKey(kind) /\ ~api_key
          /\ result' = [result EXCEPT ![t] =
                          Err("missing_api_key", StatusUnauthorized, "none", "absent")]
          /\ limiterCalls' = [limiterCalls EXCEPT ![t] = 0]
          /\ UNCHANGED <<pc, inCall>>
       \/ /\ ~(ChecksKey(kind) /\ ~api_key)
          /\ UsesLimiter
          /\ result' = [result EXCEPT ![t] = NoResult]
          /\ limiterCalls' = [limiterCalls EXCEPT ![t] = 1]
          /\ inCall' = [inCall EXCEPT ![t] = TRUE]
          /\ pc' = [pc EXCEPT ![t] = "acq_lock"]
       \/ /\ ~(ChecksKey(kind) /\ ~api_key)
          /\ ~UsesLimiter
          /\ result' = [result EXCEPT ![t] = NoResult]
          /\ limiterCalls' = [limiterCalls EXCEPT ![t] = 0]
          /\ inCall' = [inCall EXCEPT ![t] = TRUE]
          /\ pc' = [pc EXCEPT ![t] = "send"]
    /\ UNCHANGED <<now, limiterVars, configVars, globalVars, pureVars, want, blk, phase, need, sleepStart,
                   last_exception, ghostVars, acquireReturns, requestsIssued, acquireLog,
                   ticket>>

\* One call of the transport inside self.client.get, with what follows it: through
\* RetryableHTTPClient one iteration of the wrapper's loop (on an exception either
\* time.sleep(delay) and the next iteration, or the break and "raise last_exception"
\* into the verb method's except clauses), and for a response _handle_response.
\* The backoff sleep is recorded in sleeps; it is shorter than one step of the clock.
SendStep(t, o) ==
    /\ pc[t] = "send"
    /\ requestsIssued' = requestsIssued + 1
    /\    \/ /\ o.type = "response"
                /\ result' = [result EXCEPT ![t] = HandleResponse(kind, o)]
                /\ pc' = [pc EXCEPT ![t] = "idle"]
                /\ inCall' = [inCall EXCEPT ![t] = FALSE]
                /\ attempt' = [attempt EXCEPT ![t] = 0]
                /\ last_exception' = [last_exception EXCEPT ![t] = NoExc]
                /\ UNCHANGED sleeps
             \/ /\ o.type = "raise"
                /\ Retries(attempt[t], o)
                /\ last_exception' = [last_exception EXCEPT ![t] = LastException(t, o)]
                /\ sleeps' = [sleeps EXCEPT ![t] =
                                Append(@, calculate_backoff_delay(attempt[t], InitialDelay,
                                                                  MaxDelay, ExponentialBase))]
                /\ attempt' = [attempt EXCEPT ![t] = @ + 1]
                /\ UNCHANGED <<pc, inCall, result>>
             \/ /\ o.type = "raise"
                /\ ~Retries(attempt[t], o)
                /\ result' = [result EXCEPT ![t] = ExceptChain(LastException(t, o))]
                /\ pc' = [pc EXCEPT ![t] = "idle"]
                /\ inCall' = [inCall EXCEPT ![t] = FALSE]
                /\ attempt' = [attempt EXCEPT ![t] = 0]
                /\ last_exception' = [last_exception EXCEPT ![t] = NoExc]
                /\ UNCHANGED sleeps
    /\ UNCHANGED <<now, limiterVars, configVars, globalVars, pureVars, want, blk, phase, need, sleepStart, ret,
                   limiterCalls, ghostVars, calls, acquireReturns, acquireLog, ticket>>

\* The same with the outcome added to the call's recorded history.
Send(t) ==
    \E o \in Outcomes :
       /\ SendStep(t, o)
       /\ hist' = [hist EXCEPT ![t] = Append(@, o)]

\* The same with no history kept.
SendUnrecorded(t) ==
    \E o \in Outcomes :
       /\ SendStep(t, o)
       /\ UNCHANGED hist

\* The same for the outcomes above and for error responses whose JSON body is an
\* object with an entry "url".
DetailOutcomes ==
    Outcomes \cup {Response(s, "json_dict_url") : s \in {StatusNotFound, StatusUnavailable}}

SendDetailed(t) ==
    \E o \in DetailOutcomes :
       /\ SendStep(t, o)
       /\ hist' = [hist EXCEPT ![t] = Append(@, o)]

\* A client as its constructor leaves it.  What a disabled part would be configured
\* with is never read, so it is fixed.
InitClient ==
    /\ Init
    /\ enable_retry \/ max_retries = 0
    /\ enable_rate_limiting \/ requests_per_hour = 1
    /\ kind = "openmeteo" => api_key

\* One thread calling the verb methods of one client.
NextClient ==
    \/ Tick
    \/ CallStart(1)
    \/ AcquireSteps(1)
    \/ Send(1)

SpecClient == InitClient /\ [][NextClient]_vars

\* One thread calling the verb methods of one client whose error responses may
\* carry any of the bodies.
InitDetails ==
    /\ InitClient
    /\ max_retries <= 1

NextDetails ==
    \/ Tick
    \/ CallStart(1)
    \/ AcquireSteps(1)
    \/ SendDetailed(1)

SpecDetails == InitDetails /\ [][NextDetails]_vars

\* Several threads calling the verb methods of one rate-limited client.
InitShared ==
    /\ InitClient
    /\ enable_rate_limiting
    /\ kind = "nps" /\ api_key

NextShared ==
    \/ Tick
    \/ \E t \in Threads :
          \/ CallStart(t)
          \/ AcquireSteps(t)
          \/ SendUnrecorded(t)

SpecShared == InitShared /\ [][NextShared]_vars

\* The same threads with the transport's outcomes recorded, for clients that retry
\* at most once.
InitRecorded ==
    /\ InitShared
    /\ max_retries <= 1

NextRecorded ==
    \/ Tick
    \/ \E t \in Threads :
          \/ CallStart(t)
          \/ AcquireSteps(t)
          \/ Send(t)

SpecRecorded == InitRecorded /\ [][NextRecorded]_vars

\* ------------------------------------------- client.py's global instance
\* Everything but the global instance.
clientVars == <<now, limiterVars, configVars, pureVars, acquireVars, callVars, ghostVars, countVars>>

\* Calls of get_client and close_client begun so far, against the budget of calls.
GlobalCallsBegun == Len(glog) + Cardinality({t \in Threads : gpc[t] # "idle"})

\* get_client: "if _client is None:".
GetClientTest(t) ==
    /\ gpc[t] = "idle"
    /\ GlobalCallsBegun < MaxGlobalCalls
    /\ gpc' = [gpc EXCEPT ![t] = IF _client = NoInstance THEN "get_new" ELSE "get_return"]
    /\ UNCHANGED <<_client, instances, closes, glog, clientVars>>

\* get_client: "_client = NPSAPIClient()", a new instance with its own transport.
GetClientNew(t) ==
    /\ gpc[t] = "get_new"
    /\ instances' = instances + 1
    /\ closes' = Append(closes, 0)
    /\ _client' = instances + 1
    /\ gpc' = [gpc EXCEPT ![t] = "get_return"]
    /\ UNCHANGED <<glog, clientVars>>

\* get_client: "return _client".
GetClientReturn(t) ==
    /\ gpc[t] = "get_return"
    /\ glog' = Append(glog, [op |-> "get_client", by |-> t, inst |-> _client])
    /\ gpc' = [gpc EXCEPT ![t] = "idle"]
    /\ UNCHANGED <<_client, instances, closes, clientVars>>

\* close_client: "if _client is not None:"; with no instance the call is over.
CloseClientTest(t) ==
    /\ gpc[t] = "idle"
    /\ GlobalCallsBegun < MaxGlobalCalls
    /\ IF _client # NoInstance
       THEN /\ gpc' = [gpc EXCEPT ![t] = "close_close"]
            /\ UNCHANGED glog
       ELSE /\ glog' = Append(glog, [op |-> "close_client", by |-> t, inst |-> NoInstance])
            /\ UNCHANGED gpc
    /\ UNCHANGED <<_client, instances, closes, clientVars>>

\* close_client: "_client.close()", which closes the instance's transport (on None,
\* after another thread cleared the global, the attribute lookup raises).
CloseClientClose(t) ==
    /\ gpc[t] = "close_close"
    /\ IF _client # NoInstance
       THEN /\ closes' = [closes EXCEPT ![_client] = @ + 1]
            /\ gpc' = [gpc EXCEPT ![t] = "close_clear"]
            /\ UNCHANGED glog
       ELSE /\ glog' = Append(glog, [op |-> "AttributeError", by |-> t, inst |-> NoInstance])
            /\ gpc' = [gpc EXCEPT ![t] = "idle"]
            /\ UNCHANGED closes
    /\ UNCHANGED <<_client, instances, clientVars>>

\* close_client: "_client = None".
ClearedClientKept == _client

ClearedClient == NoInstance

CloseClientClear(t) ==
    /\ gpc[t] = "close_clear"
    /\ glog' = Append(glog, [op |-> "close_client", by |-> t, inst |-> _client])
    /\ _client' = ClearedClient
    /\ gpc' = [gpc EXCEPT ![t] = "idle"]
    /\ UNCHANGED <<instances, closes, clientVars>>

\* The module as imported, with no call of a client under way.
InitGlobal ==
    /\ Init
    /\ kind = "nps" /\ api_key /\ ~enable_retry /\ max_retries = 0 /\ enable_rate_limiting
    /\ requests_per_hour = 1

\* One thread calling get_client and close_client in any order.
NextGlobal ==
    \/ GetClientTest(1)
    \/ GetClientNew(1)
    \/ GetClientReturn(1)
    \/ CloseClientTest(1)
    \/ CloseClientClose(1)
    \/ CloseClientClear(1)

SpecGlobal == InitGlobal /\ [][NextGlobal]_vars

\* Several threads calling get_client.
NextGlobalShared ==
    \E t \in Threads :
       \/ GetClientTest(t)
       \/ GetClientNew(t)
       \/ GetClientReturn(t)

SpecGlobalShared == InitGlobal /\ [][NextGlobalShared]_vars

\* ------------------------------------------------------ the pure functions
\* The exceptions handed to should_retry_error, and the tuples of status codes.
ErrorInputs ==
    {Raise(c, 0) : c \in {"TimeoutException", "ConnectTimeout", "ReadTimeout", "NetworkError",
                          "ConnectError", "ReadError", "ProtocolError", "RuntimeError",
                          "ValueError"}}
    \cup {Raise("HTTPStatusError", s) : s \in {StatusNotFound, 429, 500, StatusUnavailable}}

StatusCodeSets == SUBSET {StatusNotFound, 429, StatusUnavailable} \cup {DefaultRetryStatusCodes}

ShouldRetryCalls ==
    {[op |-> "should_retry_error", error |-> e, retry_on_status_codes |-> c] :
       e \in ErrorInputs, c \in StatusCodeSets}

\* The arguments of calculate_backoff_delay: attempts from 0, and the attempts around
\* the largest power of two a float holds; bases that are powers of two.
BackoffAttempts ==
    (0..MaxBackoffAttempt)
    \cup {FloatMaxExponent \div 2 - 1, FloatMaxExponent \div 2, FloatMaxExponent - 1,
          FloatMaxExponent}

BackoffCalls ==
    {[op |-> "calculate_backoff_delay", attempt |-> a, initial_delay |-> i, max_delay |-> m,
      exponential_base |-> b] :
       a \in BackoffAttempts, i \in {InitialDelay, 2}, m \in {10, MaxDelay},
       b \in {ExponentialBase, 4}}

\* The argument retry_on_status_codes of RetryConfig: omitted, or a tuple of codes.
Omitted == [given |-> FALSE, codes |-> {}]
Given(c) == [given |-> TRUE, codes |-> c]

\* RetryConfig.retry_on_status_codes as __init__ sets it: "retry_on_status_codes or
\* (429, 500, 502, 503, 504)", where None and the empty tuple are false.
RetryConfig(a) == IF ~a.given \/ a.codes = {} THEN DefaultRetryStatusCodes ELSE a.codes

\* A RetryConfig built with some argument, and an HTTP status error met by the
\* wrapper that runs with this configuration.
RetryConfigCalls ==
    {[op |-> "RetryConfig", retry_on_status_codes |-> a, error |-> e] :
       a \in {Omitted} \cup {Given(c) : c \in StatusCodeSets},
       e \in {Raise("HTTPStatusError", st) : st \in {StatusNotFound, 429, 500, StatusUnavailable}}}

\* status_code = None of an API error.  (In the results of the verb calls above,
\* where no status 0 occurs, 0 stands for it.)
None == -1

\* The details dictionaries of the API errors handed to to_error_response.
DetailsInputs ==
    {<<>>} \cup {[k \in {"key"} |-> "value"]}
    \cup {[k \in {"status_code"} |-> sc] : sc \in {StatusOK, StatusNotFound}}
    \cup {[k \in {"status_code", "key"} |-> IF k = "key" THEN "value" ELSE sc] :
            sc \in {StatusOK, StatusNotFound}}

APIErrors ==
    {[message |-> "Test error", status_code |-> sc, error_type |-> et, details |-> d] :
       sc \in {None, 0, StatusNotFound, 500}, et \in {"http_error", "test_error"},
       d \in DetailsInputs}

ToErrorResponseCalls == {[op |-> "to_error_response", error |-> e] : e \in APIErrors}

\* "if self.status_code:" is Python's truth test: None and 0 are false.
Truthy(sc) == sc # None /\ sc # 0

\* details["status_code"] = status_code on a copy of the dictionary.
WithStatusCode(d, sc) ==
    [k \in DOMAIN d \cup {"status_code"} |-> IF k = "status_code" THEN sc ELSE d[k]]

\* NPSAPIError.to_error_response (WeatherAPIError and AirQualityAPIError have the
\* same method).  ErrorResponse.status_code, which the call does not pass, keeps its
\* default None.
to_error_response(e) ==
    [error |-> e.error_type,
     message |-> e.message,
     details |-> IF Truthy(e.status_code) THEN WithStatusCode(e.details, e.status_code)
                 ELSE e.details,
     status_code |-> None]

\* handle_api_error: the ErrorResponse it builds, as model_dump returns it.
handle_api_error(exc) ==
    [error |-> exc.error_type,
     message |-> exc.message,
     details |-> exc.details,
     status_code |-> exc.status_code]

HandleApiErrorCalls == {[op |-> "handle_api_error", error |-> e] : e \in APIErrors}

Returned(v) == [done |-> TRUE, raised |-> "none", returned |-> v]
Raised(c) == [done |-> TRUE, raised |-> c, returned |-> "none"]

ApplyShouldRetry ==
    /\ args.op = "should_retry_error"
    /\ ~value.done
    /\ value' = Returned(should_retry_error(args.error, args.retry_on_status_codes))
    /\ UNCHANGED <<now, limiterVars, configVars, globalVars, args, acquireVars, callVars, ghostVars,
                   countVars>>

ApplyBackoff ==
    /\ args.op = "calculate_backoff_delay"
    /\ ~value.done
    /\ value' = IF PowerRaises(args.exponential_base, args.attempt)
                THEN Raised("OverflowError")
                ELSE Returned(calculate_backoff_delay(args.attempt, args.initial_delay,
                                                      args.max_delay, args.exponential_base))
    /\ UNCHANGED <<now, limiterVars, configVars, globalVars, args, acquireVars, callVars, ghostVars,
                   countVars>>

ApplyToErrorResponse ==
    /\ args.op = "to_error_response"
    /\ ~value.done
    /\ value' = Returned(to_error_response(args.error))
    /\ UNCHANGED <<now, limiterVars, configVars, globalVars, args, acquireVars, callVars, ghostVars,
                   countVars>>

\* RetryConfig(retry_on_status_codes=...) and then the wrapper's
\* should_retry_error(e, config.retry_on_status_codes).
ApplyRetryConfig ==
    /\ args.op = "RetryConfig"
    /\ ~value.done
    /\ value' = Returned(should_retry_error(args.error, RetryConfig(args.retry_on_status_codes)))
    /\ UNCHANGED <<now, limiterVars, configVars, globalVars, args, acquireVars, callVars, ghostVars,
                   countVars>>

ApplyHandleApiError ==
    /\ args.op = "handle_api_error"
    /\ ~value.done
    /\ value' = Returned(handle_api_error(args.error))
    /\ UNCHANGED <<now, limiterVars, configVars, globalVars, args, acquireVars, callVars, ghostVars,
                   countVars>>

NextPure ==
    \/ ApplyHandleApiError
    \/ ApplyRetryConfig
    \/ ApplyShouldRetry
    \/ ApplyBackoff
    \/ ApplyToErrorResponse

\* One call of one of the pure functions, with its arguments drawn from the sets above.
InitPure ==
    /\ InitState({1})
    /\ kind = "nps" /\ api_key /\ ~enable_retry /\ max_retries = 0 /\ enable_rate_limiting
    /\ args \in ShouldRetryCalls \cup BackoffCalls \cup ToErrorResponseCalls
                \cup RetryConfigCalls \cup HandleApiErrorCalls

SpecPure == InitPure /\ [][NextPure]_vars

\* ================================================================ claims
\* A verb call of thread t has returned or raised.
Finished(t) == pc[t] = "idle" /\ ~inCall[t] /\ result[t].kind # "none"

\* The last outcome of the transport in thread t's call.
LastOutcome(t) == hist[t][Len(hist[t])]

\* C1: in every reachable state of a RateLimiter used through acquire (blocking or
\* not, any n >= 1), get_available_tokens and reset by several threads, with a clock
\* that never goes back, the bucket holds at least 0 and at most max_tokens tokens.
C1_BucketBound == 0 <= tokens /\ tokens <= max_tokens

\* C1 witness: tokens were taken, time has passed, the bucket is partly refilled,
\* and a blocking caller is asleep waiting for more.
C1_Witness ==
    /\ granted > 0 /\ now > 0
    /\ 0 < tokens /\ tokens < max_tokens
    /\ \E t \in Threads : pc[t] = "acq_sleep"

\* The part of acquire's critical sections where the bucket is read and written.
InCritical(t) == pc[t] \in {"acq_check", "acq_deduct"}

\* C2: the tokens handed out by successful acquire calls (since construction, or
\* since the last reset, which refills the bucket) never exceed the capacity plus
\* what the refill rate yields over the time elapsed, under any interleaving of
\* threads; and refill-check-deduct is one critical section: a thread inside it
\* holds the lock, so no two threads are inside it together.
C2_NoOverAllocation ==
    /\ Units(granted) <= max_tokens + requests_per_hour * (now - epochStart)
    /\ \A t \in Threads : InCritical(t) => lock = t

\* C2 witness: both threads have acquired, time has passed, and every token the
\* bucket could have supplied so far has been handed out.
C2_Witness ==
    /\ ret[1] = "true" /\ ret[2] = "true"
    /\ requests_per_hour > 0 /\ now > epochStart
    /\ Units(granted) = max_tokens + requests_per_hour * (now - epochStart)

\* The retry wrapper's bound on the transport calls of one verb call.
MaxAttempts == IF enable_retry THEN max_retries + 1 ELSE 1

\* C3: one verb call invokes the transport at most max_retries + 1 times (once
\* without the retry wrapper), and never again after an attempt that returned a
\* response instead of raising.
C3_AttemptBound ==
    \A t \in Threads :
       /\ Len(hist[t]) <= MaxAttempts
       /\ \A i \in 1..Len(hist[t]) : hist[t][i].type = "response" => i = Len(hist[t])

\* C3 witness: a retrying call used all its attempts and the last one returned.
C3_Witness ==
    /\ enable_retry /\ max_retries >= 2
    /\ Finished(1)
    /\ Len(hist[1]) = max_retries + 1
    /\ LastOutcome(1).type = "response"

\* Every attempt of thread t's call raised a timeout.
AllTimeouts(t) ==
    /\ Len(hist[t]) > 0
    /\ \A i \in 1..Len(hist[t]) : hist[t][i] = Raise("TimeoutException", 0)

\* C4: a finished call of a retrying client whose every attempt raised a timeout
\* made exactly max_retries + 1 attempts, slept exactly max_retries times, the
\* i-th sleep lasting min(1 * 2^(i-1), 60) seconds, and raised timeout_error.
C4_RetryBoundOnTimeouts ==
    \A t \in Threads :
       (enable_retry /\ Finished(t) /\ AllTimeouts(t)) =>
          /\ Len(hist[t]) = max_retries + 1
          /\ Len(sleeps[t]) = max_retries
          /\ \A i \in 1..Len(sleeps[t]) :
                sleeps[t][i] = Min(InitialDelay * ExponentialBase ^ (i - 1), MaxDelay)
          /\ result[t].kind = "timeout_error"

\* C4 witness: such a call with max_retries = 2 has ended.
C4_Witness ==
    /\ enable_retry /\ max_retries = 2
    /\ Finished(1) /\ AllTimeouts(1)
    /\ Len(sleeps[1]) = 2

\* C5 (as claimed): HTTP responses with a retryable status are retried.  With
\* max_retries = 2, a finished call whose first attempt returned HTTP 503 did not
\* stop there: it slept 1 second and tried again; and a call whose attempts
\* returned 503, 503 and then a 2xx JSON body returned the parsed body after the
\* sleeps 1, 2.
C5_RetryableStatusIsRetried ==
    \A t \in Threads :
       (enable_retry /\ max_retries = 2 /\ Finished(t) /\ Len(hist[t]) >= 1
          /\ hist[t][1].type = "response" /\ hist[t][1].status = StatusUnavailable) =>
          /\ Len(hist[t]) >= 2
          /\ Len(sleeps[t]) >= 1 /\ sleeps[t][1] = 1
          /\ (/\ Len(hist[t]) = 3
              /\ hist[t][2].type = "response" /\ hist[t][2].status = StatusUnavailable
              /\ hist[t][3] = Response(StatusOK, "json_dict"))
             => (result[t] = Ok("dict") /\ sleeps[t] = <<1, 2>>)

\* An outcome that the claims call a non-retryable failure: a response with a
\* status that is neither 2xx nor in the retryable set, a 2xx response whose body
\* is no JSON, an HTTPStatusError with such a status, or an unexpected exception.
NonRetryableFailure(o) ==
    \/ /\ o.type = "response"
       /\ ~IsSuccessStatus(o.status)
       /\ o.status \notin DefaultRetryStatusCodes
    \/ /\ o.type = "response"
       /\ IsSuccessStatus(o.status)
       /\ o.body = "not_json"
    \/ /\ o.type = "raise"
       /\ o.cls = "HTTPStatusError"
       /\ o.status \notin DefaultRetryStatusCodes
    \/ /\ o.type = "raise"
       /\ o.cls = "RuntimeError"

\* C6: for every max_retries, with or without the retry wrapper, an attempt that
\* fails with a non-retryable failure is the call's last: the call ends with an
\* error at once, and when it is the first attempt the call made exactly one
\* transport attempt and never slept.
C6_NoRetryOnNonRetryable ==
    \A t \in Threads :
       \A i \in 1..Len(hist[t]) :
          NonRetryableFailure(hist[t][i]) =>
             /\ i = Len(hist[t])
             /\ Finished(t)
             /\ result[t].kind \in {"http_error", "parse_error", "unknown_error"}
             /\ Len(sleeps[t]) = i - 1

\* C6 witness: with max_retries = 2 a call ended after one attempt that returned
\* HTTP 404, with no sleep.
C6_Witness ==
    /\ enable_retry /\ max_retries = 2
    /\ Finished(1)
    /\ Len(hist[1]) = 1
    /\ hist[1][1].type = "response" /\ hist[1][1].status = StatusNotFound
    /\ result[1].kind = "http_error"
    /\ sleeps[1] = <<>>

\* The kinds of the closed taxonomy.
ClosedKinds ==
    {"http_error", "timeout_error", "network_error", "parse_error", "missing_api_key",
     "unknown_error"}

\* C7 (as claimed): whatever a verb call of any of the clients raises is an API
\* error whose kind is one of the six kinds of the closed taxonomy.
C7_ClosedTaxonomy ==
    \A t \in Threads : result[t].kind \in ClosedKinds \cup {"none", "ok"}

\* C8: the outcome of the attempt that ends a call decides the result: a timeout
\* exception gives timeout_error, a network exception network_error, a non-2xx
\* response http_error with the response's status as status_code, a 2xx response
\* whose body is no JSON parse_error, any other exception unknown_error with the
\* exception's message in details.error, and a 2xx JSON response the parsed body
\* (for NPSAPIClient and the two weather clients, whose verb methods return what
\* _handle_response returns).
C8_Classification ==
    \A t \in Threads :
       (Finished(t) /\ Len(hist[t]) > 0) =>
          LET o == LastOutcome(t)
              r == result[t]
          IN  /\ (o.type = "raise" /\ o.cls = "TimeoutException") => r.kind = "timeout_error"
              /\ (o.type = "raise" /\ o.cls = "NetworkError") => r.kind = "network_error"
              /\ (o.type = "raise" /\ o.cls \in {"RuntimeError", "HTTPStatusError"}) =>
                    (r.kind = "unknown_error" /\ r.error = o.cls)
              /\ (o.type = "response" /\ o.status # StatusOK) =>
                    (r.kind = "http_error" /\ r.status_code = o.status)
              /\ (o.type = "response" /\ o.status = StatusOK /\ o.body = "not_json") =>
                    r.kind = "parse_error"
              /\ (o.type = "response" /\ o.status = StatusOK /\ o.body # "not_json"
                    /\ kind # "airvisual") =>
                    (r.kind = "ok"
                       /\ r.body = (CASE o.body = "json_success" -> "dict_success"
                                      [] o.body = "json_dict" -> "dict"
                                      [] o.body = "json_list" -> "list"))

\* C8 witness: a call ended on a response with status 404 and raised http_error
\* carrying 404, after an earlier attempt had raised.
C8_Witness ==
    /\ Finished(1)
    /\ Len(hist[1]) = 2
    /\ LastOutcome(1).type = "response" /\ LastOutcome(1).status = StatusNotFound
    /\ result[1].kind = "http_error" /\ result[1].status_code = StatusNotFound

\* C9 (as claimed): a client that takes an API key and has none fails fast: its
\* verb calls raise missing_api_key without calling acquire or the transport, so
\* the limiter keeps all its tokens and no request is issued.
C9_MissingKeyFailsFast ==
    (kind \in {"nps", "openweather", "airvisual"} /\ ~api_key) =>
       /\ requestsIssued = 0
       /\ tokens = max_tokens
       /\ \A t \in Threads :
             /\ limiterCalls[t] = 0
             /\ Len(hist[t]) = 0
             /\ result[t].kind \in {"none", "missing_api_key"}

C11_NonBlockingFailure ==
    /\ [](\A t \in Threads : pc[t] = "acq_sleep" => blk[t])
    /\ [][\A t \in Threads :
             (pc[t] = "acq_check" /\ ~blk[t] /\ tokens < Units(want[t])
                /\ pc'[t] # "acq_check") =>
                (/\ ret'[t] = "false"
                 /\ pc'[t] = "idle"
                 /\ tokens' = tokens
                 /\ now' = now
                 /\ lock' = NoThread)]_vars

\* C11 witness: an acquire has returned False with the clock still at its start,
\* when no blocking acquire can have finished its sleep, and the bucket still holds
\* the tokens that did not suffice.
C11_Witness ==
    /\ now = 0
    /\ 0 < tokens /\ tokens < max_tokens
    /\ \E t \in Threads : ret[t] = "false" /\ pc[t] = "idle"

\* C12: in a burst of K non-blocking acquire(1) calls on a fresh limiter of capacity
\* C with no time elapsing, the first min(C, K) calls return True and all later ones
\* False, and between calls the bucket holds C minus the number of successes.
C12_BurstExhaustion ==
    LET K == Len(acquireLog)
        S == Min(requests_per_hour, K)
    IN  /\ \A i \in 1..K : acquireLog[i] = IF i <= S THEN "true" ELSE "false"
        /\ pc[1] = "idle" => tokens = Units(requests_per_hour - S)

\* C12 witness: capacity 4, six calls made; four succeeded, then two failed, and the
\* bucket is empty.
C12_Witness ==
    /\ requests_per_hour = 4
    /\ acquireLog = <<"true", "true", "true", "true", "false", "false">>
    /\ pc[1] = "idle"
    /\ tokens = 0

\* C13: when get_available_tokens is read twice with no acquisition and no reset in
\* between, the second value exceeds the first by exactly
\* min(capacity - first, elapsed * refill rate), whatever refills other calls did in
\* between; so with no time elapsed the two reads agree, and a read consumes nothing.
C13_RefillLinearity ==
    lastRead.undisturbed =>
       lastRead.value - lastRead.prev =
          Min(max_tokens - lastRead.prev, (lastRead.at - lastRead.prevAt) * requests_per_hour)

\* C13 witness: two reads with time elapsed and nothing acquired between them, the
\* second higher than the first and still below capacity.
C13_Witness ==
    /\ lastRead.undisturbed
    /\ lastRead.at > lastRead.prevAt
    /\ lastRead.prev < lastRead.value
    /\ lastRead.value < max_tokens

\* C13 witness for the repeated read: two reads at the same clock reading, of a
\* partly filled bucket, returned the same value.
C13_WitnessSameTime ==
    /\ lastRead.undisturbed
    /\ lastRead.at = lastRead.prevAt
    /\ 0 < lastRead.value /\ lastRead.value < max_tokens
    /\ lastRead.value = lastRead.prev

\* C14: every acquire call ends.  A call is never asleep a second time; the check
\* after the sleep either deducts or returns False, at once, when the refilled
\* bucket still does not suffice; and every call that has started returns (or
\* raises) whatever the other threads do.
C14_AcquireTerminates ==
    /\ [](\A t \in Threads : pc[t] = "acq_sleep" => phase[t] = 1)
    /\ [][\A t \in Threads :
             (pc[t] = "acq_check" /\ phase[t] = 2 /\ pc'[t] # "acq_check") =>
                \/ pc'[t] = "acq_deduct" /\ tokens >= Units(want[t])
                \/ pc'[t] = "idle" /\ ret'[t] = "false" /\ tokens < Units(want[t])]_vars
    /\ \A t \in Threads : (pc[t] # "idle") ~> (pc[t] = "idle")

\* C14 witness: a blocking call for an amount within the capacity has slept, and
\* finds at its second check that the bucket does not suffice, the other thread
\* having taken tokens meanwhile.
C14_Witness ==
    \E t, u \in Threads :
       /\ t # u
       /\ pc[t] = "acq_check" /\ phase[t] = 2
       /\ want[t] <= requests_per_hour
       /\ tokens < Units(want[t])
       /\ ret[u] = "true"

\* C15 (as claimed): for every capacity requests_per_hour >= 0 and every call
\* acquire(n, block), the call ends by returning True or False and never raises.
C15_AcquireNeverRaises ==
    \A t \in Threads : ret[t] \in {"none", "true", "false"}

\* The call of the pure function f has been made.
Applied(f) == args.op = f /\ value.done

\* C16: should_retry_error returns True for every network error and every timeout
\* (the httpx classes and their subclasses), for an HTTPStatusError exactly when
\* its status code is in the tuple of retryable codes it is given (the default
\* tuple being 429, 500, 502, 503, 504), and False for every other exception.
C16_RetryDecisionTable ==
    Applied("should_retry_error") =>
       /\ value.raised = "none"
       /\ value.returned =
             (CASE args.error.cls \in {"NetworkError", "ConnectError", "ReadError"} -> TRUE
                [] args.error.cls \in {"TimeoutException", "ConnectTimeout", "ReadTimeout"} -> TRUE
                [] args.error.cls = "HTTPStatusError" ->
                      args.error.status \in args.retry_on_status_codes
                [] OTHER -> FALSE)

\* C16 witness: an HTTPStatusError with status 404, outside the default tuple, was
\* judged against the tuple (404,) and is to be retried.
C16_Witness ==
    /\ Applied("should_retry_error")
    /\ args.error = Raise("HTTPStatusError", StatusNotFound)
    /\ args.retry_on_status_codes = {StatusNotFound}
    /\ value.returned = TRUE

\* C17 (as claimed): for every attempt a >= 0, with base > 1 and positive delays,
\* calculate_backoff_delay returns min(initial_delay * base^a, max_delay), which is
\* at most max_delay and at most the delay of attempt a + 1.
C17_BackoffFormula ==
    Applied("calculate_backoff_delay") =>
       /\ value.raised = "none"
       /\ value.returned <= args.max_delay
       /\ args.attempt <= MaxBackoffAttempt =>
             value.returned =
                Min(args.initial_delay * args.exponential_base ^ args.attempt, args.max_delay)
       /\ ~PowerRaises(args.exponential_base, args.attempt + 1)
       /\ value.returned <= calculate_backoff_delay(args.attempt + 1, args.initial_delay,
                                                     args.max_delay, args.exponential_base)

\* C18 (as claimed): for every API error whose status_code is not None, the details
\* of to_error_response() hold that status_code under "status_code", also when the
\* error's details held another value there, and every other entry of the error's
\* details is kept as it was.
C18_StatusCodeRoundTrip ==
    (Applied("to_error_response") /\ args.error.status_code # None) =>
       LET before == args.error.details
           after == value.returned.details
       IN  /\ DOMAIN after = DOMAIN before \cup {"status_code"}
           /\ after["status_code"] = args.error.status_code
           /\ \A k \in DOMAIN before \ {"status_code"} : after[k] = before[k]

\* The result of thread t's finished call is what its last transport outcome
\* classifies to (NPS client).
ReportsOutcome(t) ==
    LET o == LastOutcome(t)
        r == result[t]
    IN  CASE o.type = "response" /\ o.status # StatusOK ->
               r.kind = "http_error" /\ r.status_code = o.status
          [] o.type = "response" /\ o.status = StatusOK /\ o.body = "not_json" ->
               r.kind = "parse_error"
          [] o.type = "response" /\ o.status = StatusOK /\ o.body # "not_json" ->
               r.kind = "ok"
          [] o.type = "raise" /\ o.cls = "TimeoutException" -> r.kind = "timeout_error"
          [] o.type = "raise" /\ o.cls = "NetworkError" -> r.kind = "network_error"
          [] OTHER -> r.kind = "unknown_error"

\* C19: a verb call whose acquire returned False goes on to the transport with no
\* error raised, and when it has finished it has called the transport at least
\* once and its result is the transport's outcome; the False is never reported.
C19_AdvisoryRateLimiting ==
    \A t \in Threads :
       (ret[t] = "false" /\ limiterCalls[t] = 1) =>
          \/ /\ inCall[t] /\ pc[t] = "send"
             /\ result[t] = NoResult
          \/ /\ Finished(t)
             /\ Len(hist[t]) >= 1
             /\ ReportsOutcome(t)

\* C19 witness: a call whose acquire returned False (the other thread took the
\* refilled token during its sleep) has finished with the parsed body of a 200
\* response, having been granted no token.
C19_Witness ==
    \E t \in Threads :
       /\ ret[t] = "false" /\ limiterCalls[t] = 1
       /\ Finished(t)
       /\ LastOutcome(t) = Response(StatusOK, "json_dict")
       /\ result[t] = Ok("dict")

\* C20: a thread asleep inside a blocking acquire does not hold the lock, so other
\* threads get through acquire meanwhile; nothing serves waiters in their order of
\* arrival (the witness below is a later caller served before an earlier one).
C20_LockFreeWhileAsleep ==
    \A t \in Threads : pc[t] \in {"acq_sleep", "idle"} => lock # t

\* C20 witness: thread A is asleep inside a blocking acquire(1); thread B called
\* acquire when A was already asleep in this same call, and B's call has returned
\* True: B has its tokens while A still waits for one.
C20_Witness ==
    \E A, B \in Threads :
       /\ A # B
       /\ pc[A] = "acq_sleep" /\ blk[A] /\ want[A] = 1
       /\ ticket[A].no \in ticket[B].asleep
       /\ pc[B] = "idle" /\ ret[B] = "true"

\* The kind the verb method's except clauses give a retryable exception class.
KindOfClass(c) ==
    CASE c = "TimeoutException" -> "timeout_error"
      [] c = "NetworkError" -> "network_error"
      [] OTHER -> "unknown_error"

\* Thread t's call used all the attempts of a retrying client and every one raised.
Exhausted(t) ==
    /\ enable_retry /\ max_retries >= 1
    /\ Finished(t)
    /\ Len(hist[t]) = max_retries + 1
    /\ \A i \in 1..Len(hist[t]) : hist[t][i].type = "raise"

\* C21: when a retrying call has used all its attempts and each of them raised,
\* the API error raised has the kind of the final attempt's exception (timeout_error
\* for a timeout, network_error for a network error), and not the kind of an earlier
\* attempt whose exception was of another class.
C21_LastAttemptIsRaised ==
    \A t \in Threads :
       Exhausted(t) =>
          /\ LastOutcome(t).cls \in {"TimeoutException", "NetworkError"} =>
                result[t].kind = KindOfClass(LastOutcome(t).cls)
          /\ \A i \in 1..(Len(hist[t]) - 1) :
                KindOfClass(hist[t][i].cls) # KindOfClass(LastOutcome(t).cls) =>
                   result[t].kind # KindOfClass(hist[t][i].cls)

\* C21 witness: with max_retries = 2 the attempts raised timeout, timeout and then a
\* network error, and the call raised network_error.
C21_Witness ==
    /\ enable_retry /\ max_retries = 2
    /\ Finished(1)
    /\ hist[1] = <<Raise("TimeoutException", 0), Raise("TimeoutException", 0),
                   Raise("NetworkError", 0)>>
    /\ result[1].kind = "network_error"

\* An instance was closed and cleared between the calls i and j of the log.
ClosedBetween(i, j) ==
    \E k \in (i + 1)..(j - 1) : glog[k].op = "close_client" /\ glog[k].inst # NoInstance

\* C22: in any sequence of get_client and close_client calls by one caller, every
\* get_client returns an instance; two get_client calls return the same instance
\* exactly when no instance was closed between them; no transport is ever closed
\* twice; between calls every instance but the current one has been closed once and
\* the current one never; after a close_client there is no global instance; and a
\* close_client with no instance closes nothing.
C22_GlobalClientLifecycle ==
    /\ \A i \in 1..Len(glog) : glog[i].op = "get_client" => glog[i].inst # NoInstance
    /\ \A i \in 1..Len(glog) : \A j \in (i + 1)..Len(glog) :
          (glog[i].op = "get_client" /\ glog[j].op = "get_client") =>
             ((glog[i].inst = glog[j].inst) <=> ~ClosedBetween(i, j))
    /\ \A k \in 1..instances : closes[k] <= 1
    /\ gpc[1] = "idle" =>
          /\ \A k \in 1..instances : closes[k] = IF k = _client THEN 0 ELSE 1
          /\ (Len(glog) > 0 /\ glog[Len(glog)].op = "close_client") => _client = NoInstance
    /\ \A i \in 1..Len(glog) :
          (glog[i].op = "close_client" /\ (i = 1 \/ glog[i - 1].op = "close_client")) =>
             glog[i].inst = NoInstance
    /\ \A i \in 1..Len(glog) : glog[i].op # "AttributeError"

\* C22 witness: get_client twice gave instance 1, close_client closed it once, a
\* second close_client did nothing, and the next get_client gave instance 2.
C22_Witness ==
    /\ Len(glog) = 5
    /\ glog[1].op = "get_client" /\ glog[1].inst = 1
    /\ glog[2].op = "get_client" /\ glog[2].inst = 1
    /\ glog[3].op = "close_client" /\ glog[3].inst = 1
    /\ glog[4].op = "close_client" /\ glog[4].inst = NoInstance
    /\ glog[5].op = "get_client" /\ glog[5].inst = 2
    /\ closes = <<1, 0>>
    /\ _client = 2

\* C29 (as claimed): when several threads call get_client while there is no global
\* instance, at most one NPSAPIClient is ever constructed and every get_client call
\* returns that one instance.
C29_SingletonUnderConcurrency ==
    /\ instances <= 1
    /\ \A i \in 1..Len(glog) : glog[i].inst = 1

\* C23 (as claimed): every API error a verb call raises with one of the kinds
\* http_error, timeout_error, network_error, parse_error, unknown_error has in its
\* details the entry "url", and that entry is the URL that was requested.
C23_DetailsCarryRequestUrl ==
    \A t \in Threads :
       (Finished(t) /\ result[t].kind \in {"http_error", "timeout_error", "network_error",
                                            "parse_error", "unknown_error"}) =>
          result[t].url = "requested"

\* The other way the entry goes wrong: a call raised http_error and the "url" in its
\* details is the one found in the body of the error response.
C23_UrlFromBody ==
    /\ Finished(1)
    /\ result[1].kind = "http_error"
    /\ result[1].url = "from_body"

\* Thread t is inside acquire.
InAcquire(t) == pc[t] \in {"acq_lock", "acq_check", "acq_deduct", "acq_sleep"}

\* C24: with rate limiting enabled, a verb call that goes to the transport (every
\* call of NPSAPIClient and OpenMeteoClient, and of the other two clients once the
\* API key is found) calls acquire(1, block=True) exactly once and that call has
\* returned before the first transport attempt; no attempt, first or retried, calls
\* acquire or changes the bucket; so the tokens handed out never exceed the number
\* of verb calls.
C24_AcquireOncePerVerbCall ==
    /\ [](enable_rate_limiting =>
            /\ granted <= calls
            /\ \A t \in Threads :
                  /\ InAcquire(t) =>
                        (/\ Len(hist[t]) = 0 /\ limiterCalls[t] = 1
                         /\ want[t] = 1 /\ blk[t])
                  /\ (Len(hist[t]) >= 1 \/ pc[t] = "send") =>
                        (limiterCalls[t] = 1 /\ ret[t] \in {"true", "false"}))
    /\ [][\A t \in Threads :
             Len(hist'[t]) > Len(hist[t]) =>
                (/\ limiterCalls' = limiterCalls
                 /\ tokens' = tokens /\ granted' = granted
                 /\ ~InAcquire(t)')]_vars

\* C24 witness: a rate-limited call of a client with max_retries = 2 made three
\* transport attempts after its one acquire, and one token in all has been handed out.
C24_Witness ==
    /\ enable_rate_limiting /\ enable_retry /\ max_retries = 2
    /\ Finished(1)
    /\ Len(hist[1]) = 3
    /\ limiterCalls[1] = 1 /\ ret[1] = "true"
    /\ calls = 1 /\ granted = 1

\* Every attempt of thread t's call raised an HTTP status error with status s.
AllStatusErrors(t, s) ==
    /\ Len(hist[t]) > 0
    /\ \A i \in 1..Len(hist[t]) : hist[t][i] = Raise("HTTPStatusError", s)

\* C25 (as claimed): a finished call of a retrying client whose every attempt
\* raised an HTTP status error with a retryable status s made max_retries + 1
\* attempts and raised http_error with status_code = s.
C25_KindAfterExhaustedStatus ==
    \A t \in Threads : \A s \in DefaultRetryStatusCodes :
       (enable_retry /\ Finished(t) /\ AllStatusErrors(t, s)) =>
          /\ Len(hist[t]) = max_retries + 1
          /\ result[t].kind = "http_error"
          /\ result[t].status_code = s

\* What an uncontended blocking acquire of thread t does as it returns or sleeps,
\* for a limiter of some capacities: with 1 <= n <= capacity it returns True; with
\* n > capacity it returns False, and only after its sleep; it sleeps for
\* (n - tokens) / tokens_per_second, and only once.
UncontendedAcquire(t, capacities) ==
    (requests_per_hour \in capacities /\ blk[t]) =>
       /\ (pc[t] \in {"acq_check", "acq_deduct"} /\ pc'[t] = "idle") =>
             /\ want[t] <= requests_per_hour => ret'[t] = "true"
             /\ want[t] > requests_per_hour => (ret'[t] = "false" /\ phase[t] = 2)
       /\ (pc[t] = "acq_check" /\ pc'[t] = "acq_sleep") =>
             /\ phase[t] = 1
             /\ need'[t] = Units(want[t]) - tokens
             /\ need'[t] > 0
       /\ (pc[t] = "acq_sleep" /\ pc'[t] # "acq_sleep") =>
             (now - sleepStart[t]) * requests_per_hour >= need[t]

\* C26 (as claimed): with a single caller and a clock that never goes back, every
\* acquire(n, block=True) returns True when 1 <= n <= capacity, after at most one
\* sleep of (n - tokens) / refill rate, and when n > capacity it sleeps and then
\* returns False.
C26_UncontendedBlockingAcquire == [][UncontendedAcquire(1, RphChoices)]_vars

\* The same for the limiters whose capacity is at least 1, for which it holds.
C26_WithPositiveCapacity == [][UncontendedAcquire(1, RphChoices \ {0})]_vars

\* With a capacity of at least 1, a blocking acquire found the bucket short, slept,
\* and returned True.
C26_ReturnedTrueAfterSleep ==
    /\ requests_per_hour >= 1
    /\ pc[1] = "acq_deduct" /\ blk[1] /\ phase[1] = 2

\* C27 (as claimed): whatever the wall clock reads, earlier than last_update
\* included, a refill never lowers the bucket and never leaves it below 0: the
\* bucket is never negative, and the only step that lowers it is the deduction of
\* a successful acquire.
C27_RefillNeverLowers ==
    /\ [](tokens >= 0)
    /\ [][tokens' < tokens =>
             \E t \in Threads : pc[t] = "acq_deduct" /\ pc'[t] # "acq_deduct"]_vars

\* C28 (as claimed): a RetryConfig built with retry_on_status_codes = S makes the
\* retry loop retry an HTTP status error exactly when its status is in S, for
\* every S, the empty one included; built without the argument it retries exactly
\* the statuses 429, 500, 502, 503, 504.
C28_ExplicitRetrySetIsUsed ==
    Applied("RetryConfig") =>
       (value.returned <=>
          args.error.status \in (IF args.retry_on_status_codes.given
                                 THEN args.retry_on_status_codes.codes
                                 ELSE DefaultRetryStatusCodes))

\* The same for the sets that are not empty, and for the omitted argument.
C28_NonEmptyRetrySetIsUsed ==
    (Applied("RetryConfig") /\ args.retry_on_status_codes # Given({})) =>
       (value.returned <=>
          args.error.status \in (IF args.retry_on_status_codes.given
                                 THEN args.retry_on_status_codes.codes
                                 ELSE DefaultRetryStatusCodes))

\* C30 (as claimed): for every NPSAPIError, whatever its kind, message and
\* status_code (set or None), handle_api_error(exc) and exc.to_error_response()
\* give the same error, the same message and the same top-level status_code.
C30_ConversionsAgree ==
    Applied("handle_api_error") =>
       /\ value.returned.error = to_error_response(args.error).error
       /\ value.returned.message = to_error_response(args.error).message
       /\ value.returned.status_code = to_error_response(args.error).status_code

\* What the two conversions do agree on: the error and the message, and the
\* top-level status_code when the exception has none.
C30_AgreeOnErrorAndMessage ==
    Applied("handle_api_error") =>
       /\ value.returned.error = to_error_response(args.error).error
       /\ value.returned.message = to_error_response(args.error).message
       /\ args.error.status_code = None =>
             value.returned.status_code = to_error_response(args.error).status_code

=============================================================================
